---------------------------- MODULE Spec2Model ----------------------------
(***************************************************************************)
(* A model of pactree's installation pipeline:                             *)
(*   - the download engine, crates/core/src/io/fetch.rs (DownloadTask),    *)
(*   - the staged pipeline of src/cli/add.rs (ResolveDeps,                 *)
(*     ResolveUrlSystem, ResolveSize, run).                                *)
(* Strings that the program assembles (URLs, names) are sequences of       *)
(* tokens, so that format!() is concatenation and str::replace a map.      *)
(***************************************************************************)
EXTENDS Naturals, Integers, Sequences, FiniteSets, TLC

(***************************************************************************)
(* Bounds of the model.                                                    *)
(***************************************************************************)
NumTasks == 2       \* DownloadTask objects that exist
MaxCalls == 2       \* calls of DownloadTask::run per task
BodyLen == 2        \* bytes of the response body served for a task's url
MaxChunk == 2       \* largest chunk the byte stream delivers
OldLen == 3         \* bytes of a file found at a destination at the start
MaxInodes == 4      \* files the file system can hold

(***************************************************************************)
(*                        PART I: the download engine                      *)
(***************************************************************************)
VARIABLES
  dir,          \* file system: path -> inode, or NoFile
  data,         \* file system: inode -> content (a sequence of bytes)
  filename,     \* DownloadTask.filename, per task
  force,        \* DownloadTask.force, per task
  tracker,      \* DownloadTask.tracker.is_some(), per task
  pc,           \* where each task's run() stands
  length,       \* run(): let length
  partial_len,  \* run(): let mut partial_len
  file,         \* run(): let mut file: the open handle [ino, pos], or NoHandle
  stream,       \* run(): bytes of the body that stream.next() has delivered
  bytes,        \* run(): the chunk in hand
  result,       \* what run() returned
  events,       \* the DownloadStates the tracker was sent during this call
  requests,     \* GET requests issued so far, by all tasks
  calls,        \* calls of run() made so far, per task
  before,       \* history: the destination as the call found it
  fault         \* history: the error the environment raised in this call

dvars == <<dir, data, filename, force, tracker, pc, length, partial_len, file,
           stream, bytes, result, events, requests, calls, before, fault>>

\* The consumer of a task's progress events.
VARIABLES
  seen,         \* how far into the task's events the consumer has read
  consumer      \* where the consumer stands: "recv", "join", "done", "gone"

cvars == <<seen, consumer>>

Tasks == 1..NumTasks
Inodes == 1..MaxInodes
Dests == {"a", "b"}
NoFile == 0
NoHandle == [ino |-> NoFile, pos |-> 0]
Absent == <<"absent">>

Paths == Dests \cup {d \o ".part" : d \in Dests}

tmp_filenameAtDest(t) == filename[t]

\* fetch.rs:73  tmp_path(&self.filename, ".part"): the sibling <dest>.part
tmp_filename(t) == filename[t] \o ".part"

\* The body the server holds for task t's url: BodyLen bytes, each its own value.
Body(t) == [i \in 1..BodyLen |-> 10 * t + i]

\* What a destination holds when it exists before any download.
OldBody == [i \in 1..OldLen |-> 90 + i]

\* DownloadState { current, max } and the Result<DownloadState> of run().
DownloadState(c, m) == [current |-> c, max |-> m]

Ok(c, m) == [tag |-> "Ok", current |-> c, max |-> m, error |-> "none"]

Err(kind, e) == [tag |-> kind, current |-> 0, max |-> 0, error |-> e]

NoResult == [tag |-> "none", current |-> 0, max |-> 0, error |-> "none"]

\* What the environment answers to an operation: success or an error.
Outcomes == {"ok", "error"}

when_downloadSwallow(outcome, cause) ==
  IF outcome = "ok" THEN NoResult ELSE Err("Io", "none")

\* fetch.rs:22-26  Result<T, reqwest::Error>::when_download
when_download(outcome, cause) ==
  IF outcome = "ok" THEN NoResult ELSE Err("DownloadFailed", cause)

\* ErrorExt::when((op, path)): an I/O error, tagged with the operation.
when(outcome, op) ==
  IF outcome = "ok" THEN NoResult ELSE Err("Io", op)

(***************************************************************************)
(* The file system.                                                        *)
(***************************************************************************)
exists(p) == dir[p] # NoFile

content(p) == IF exists(p) THEN data[dir[p]] ELSE Absent

Max(a, b) == IF a >= b THEN a ELSE b

Min(S) == CHOOSE x \in S : \A y \in S : x <= y

\* write(2) at offset pos: overwrite what is there, zero-fill a gap, extend.
WriteAt(c, pos, bs) ==
  [i \in 1..Max(Len(c), pos + Len(bs)) |->
     IF i > pos /\ i <= pos + Len(bs) THEN bs[i - pos]
     ELSE IF i <= Len(c) THEN c[i] ELSE 0]

\* Inodes that a directory entry or an open handle still refers to.
Live(d, f) == {d[p] : p \in Paths} \cup {f[t].ino : t \in Tasks}

\* An inode nothing refers to holds nothing.
Reclaim(d, f, dt) == [i \in Inodes |-> IF i \in Live(d, f) THEN dt[i] ELSE <<>>]

FreeInodes == Inodes \ Live(dir, file)

Running == {"entry", "create", "next", "write", "send", "sync", "rename"}

Stopped == {"idle", "returned", "cancelled"}

DInit ==
  /\ filename \in [Tasks -> Dests]
  /\ \E present \in SUBSET Dests :
       /\ dir = [p \in Paths |->
                   IF p = "a" /\ "a" \in present THEN 1
                   ELSE IF p = "b" /\ "b" \in present THEN 2 ELSE NoFile]
       /\ data = [i \in Inodes |->
                   IF (i = 1 /\ "a" \in present) \/ (i = 2 /\ "b" \in present)
                   THEN OldBody ELSE <<>>]
  /\ force = [t \in Tasks |-> FALSE]
  /\ tracker = [t \in Tasks |-> TRUE]
  /\ pc = [t \in Tasks |-> "idle"]
  /\ length = [t \in Tasks |-> 0]
  /\ partial_len = [t \in Tasks |-> 0]
  /\ file = [t \in Tasks |-> NoHandle]
  /\ stream = [t \in Tasks |-> 0]
  /\ bytes = [t \in Tasks |-> <<>>]
  /\ result = [t \in Tasks |-> NoResult]
  /\ events = [t \in Tasks |-> <<>>]
  /\ requests = 0
  /\ calls = [t \in Tasks |-> 0]
  /\ before = [t \in Tasks |-> [ino |-> NoFile, content |-> Absent]]
  /\ fault = [t \in Tasks |-> "none"]

\* run() ends: the handle is dropped and the locals are gone.
Return(t, r) ==
  LET f == [file EXCEPT ![t] = NoHandle] IN
  /\ pc' = [pc EXCEPT ![t] = "returned"]
  /\ result' = [result EXCEPT ![t] = r]
  /\ file' = f
  /\ bytes' = [bytes EXCEPT ![t] = <<>>]
  /\ data' = Reclaim(dir, f, data)
  /\ UNCHANGED dir

\* A caller sets the task's fields (force(), the pub tracker) and calls run().
Call(t) ==
  /\ pc[t] \in Stopped
  /\ calls[t] < MaxCalls
  /\ \E f \in BOOLEAN, tr \in BOOLEAN :
       /\ force' = [force EXCEPT ![t] = f]
       /\ tracker' = [tracker EXCEPT ![t] = tr]
  /\ pc' = [pc EXCEPT ![t] = "entry"]
  /\ calls' = [calls EXCEPT ![t] = @ + 1]
  /\ length' = [length EXCEPT ![t] = 0]
  /\ partial_len' = [partial_len EXCEPT ![t] = 0]
  /\ stream' = [stream EXCEPT ![t] = 0]
  /\ result' = [result EXCEPT ![t] = NoResult]
  /\ events' = [events EXCEPT ![t] = <<>>]
  /\ before' = [before EXCEPT ![t] =
                  [ino |-> dir[filename[t]], content |-> content(filename[t])]]
  /\ fault' = [fault EXCEPT ![t] = "none"]
  /\ UNCHANGED <<dir, data, filename, file, bytes, requests>>

fast_pathInverted(t) == force[t] /\ exists(filename[t])

\* fetch.rs:65  if !self.force && self.filename.exists()
fast_path(t) == ~force[t] /\ exists(filename[t])

\* fetch.rs:65-68  the existing file's length is both current and max.
FastPath(t) ==
  /\ pc[t] = "entry"
  /\ fast_path(t)
  /\ LET len == Len(content(filename[t])) IN Return(t, Ok(len, len))
  /\ UNCHANGED <<filename, force, tracker, length, partial_len, stream,
                 events, requests, calls, before, fault>>

\* fetch.rs:69-72  client.get(url).send().await.when_download(&self)?
SendGet(t) ==
  /\ pc[t] = "entry"
  /\ ~fast_path(t)
  /\ requests' = requests + 1
  /\ \E outcome \in Outcomes, declared \in BOOLEAN :
       LET e == when_download(outcome, "get") IN
       IF e # NoResult
       THEN /\ Return(t, e)
            /\ fault' = [fault EXCEPT ![t] = "get"]
            /\ UNCHANGED <<length, partial_len>>
       ELSE /\ length' = [length EXCEPT ![t] = IF declared THEN BodyLen ELSE 0]
            /\ partial_len' = [partial_len EXCEPT ![t] = 0]
            /\ pc' = [pc EXCEPT ![t] = "create"]
            /\ UNCHANGED <<dir, data, file, bytes, result, fault>>
  /\ UNCHANGED <<filename, force, tracker, stream, events, calls, before>>

\* fetch.rs:73-76  File::create(&tmp_filename): create or truncate, open at 0.
CreateFile(t) ==
  /\ pc[t] = "create"
  /\ \E outcome \in Outcomes :
       LET e == when(IF ~exists(tmp_filename(t)) /\ FreeInodes = {}
                     THEN "error" ELSE outcome, "create")
           ino == IF exists(tmp_filename(t)) THEN dir[tmp_filename(t)]
                  ELSE CHOOSE i \in FreeInodes : \A j \in FreeInodes : i <= j
       IN
       IF e # NoResult
       THEN /\ Return(t, e)
            /\ fault' = [fault EXCEPT ![t] = "create"]
       ELSE /\ dir' = [dir EXCEPT ![tmp_filename(t)] = ino]
            /\ data' = [data EXCEPT ![ino] = <<>>]
            /\ file' = [file EXCEPT ![t] = [ino |-> ino, pos |-> 0]]
            /\ pc' = [pc EXCEPT ![t] = "next"]
            /\ UNCHANGED <<bytes, result, fault>>
  /\ UNCHANGED <<filename, force, tracker, length, partial_len, stream,
                 events, requests, calls, before>>

\* fetch.rs:77-79  stream.next().await: a chunk, an error, or the end.
StreamNext(t) ==
  /\ pc[t] = "next"
  /\ \E outcome \in Outcomes, n \in 1..MaxChunk :
       LET e == when_download(outcome, "chunk") IN
       IF e # NoResult
       THEN /\ Return(t, e)
            /\ fault' = [fault EXCEPT ![t] = "chunk"]
            /\ UNCHANGED <<stream, partial_len>>
       ELSE IF stream[t] = BodyLen
       THEN /\ pc' = [pc EXCEPT ![t] = "sync"]
            /\ UNCHANGED <<dir, data, file, bytes, result, fault, stream,
                           partial_len>>
       ELSE /\ stream[t] + n <= BodyLen
            /\ bytes' = [bytes EXCEPT ![t] =
                           SubSeq(Body(t), stream[t] + 1, stream[t] + n)]
            /\ stream' = [stream EXCEPT ![t] = @ + n]
            /\ partial_len' = [partial_len EXCEPT ![t] = @ + n]
            /\ pc' = [pc EXCEPT ![t] = "write"]
            /\ UNCHANGED <<dir, data, file, result, fault>>
  /\ UNCHANGED <<filename, force, tracker, length, events, requests, calls,
                 before>>

\* fetch.rs:80  file.write_all(&bytes).await
WriteAll(t) ==
  /\ pc[t] = "write"
  /\ \E outcome \in Outcomes :
       LET e == when(outcome, "write") IN
       IF e # NoResult
       THEN /\ Return(t, e)
            /\ fault' = [fault EXCEPT ![t] = "write"]
       ELSE /\ data' = [data EXCEPT ![file[t].ino] =
                          WriteAt(@, file[t].pos, bytes[t])]
            /\ file' = [file EXCEPT ![t].pos = @ + Len(bytes[t])]
            /\ pc' = [pc EXCEPT ![t] = "send"]
            /\ UNCHANGED <<dir, bytes, result, fault>>
  /\ UNCHANGED <<filename, force, tracker, length, partial_len, stream,
                 events, requests, calls, before>>

send_waitsForReader(t) == tracker[t] /\ seen[t] < Len(events[t])

\* fetch.rs:83  tracker.send(..) is a plain call, not awaited: it returns
\* whether or not anyone reads the events.
send_waits(t) == FALSE

progress_eventOfChunk(t) == DownloadState(Len(bytes[t]), length[t])

\* fetch.rs:83  DownloadState { current: partial_len as u64, max: length }
progress_event(t) == DownloadState(partial_len[t], length[t])

\* fetch.rs:82-84  if let Some(tracker) = &self.tracker { tracker.send(..) }
TrackerSend(t) ==
  /\ pc[t] = "send"
  /\ ~send_waits(t)
  /\ events' = [events EXCEPT ![t] =
                  IF tracker[t]
                  THEN Append(@, progress_event(t))
                  ELSE @]
  /\ pc' = [pc EXCEPT ![t] = "next"]
  /\ UNCHANGED <<dir, data, filename, force, tracker, length, partial_len,
                 file, stream, bytes, result, requests, calls, before, fault>>

\* fetch.rs:86  file.sync_all().await
SyncAll(t) ==
  /\ pc[t] = "sync"
  /\ \E outcome \in Outcomes :
       LET e == when(outcome, "sync") IN
       IF e # NoResult
       THEN /\ Return(t, e)
            /\ fault' = [fault EXCEPT ![t] = "sync"]
       ELSE /\ pc' = [pc EXCEPT ![t] = "rename"]
            /\ UNCHANGED <<dir, data, file, bytes, result, fault>>
  /\ UNCHANGED <<filename, force, tracker, length, partial_len, stream,
                 events, requests, calls, before>>

\* fetch.rs:88-89  rename(&tmp_filename, &self.filename), then Ok(..)
Rename(t) ==
  /\ pc[t] = "rename"
  /\ \E outcome \in Outcomes :
       LET e == when(IF exists(tmp_filename(t)) THEN outcome ELSE "error",
                     "rename")
           d == [dir EXCEPT ![filename[t]] = dir[tmp_filename(t)],
                            ![tmp_filename(t)] = NoFile]
           f == [file EXCEPT ![t] = NoHandle]
       IN
       IF e # NoResult
       THEN /\ Return(t, e)
            /\ fault' = [fault EXCEPT ![t] = "rename"]
       ELSE /\ dir' = d
            /\ file' = f
            /\ data' = Reclaim(d, f, data)
            /\ bytes' = [bytes EXCEPT ![t] = <<>>]
            /\ result' = [result EXCEPT ![t] = Ok(partial_len[t], length[t])]
            /\ pc' = [pc EXCEPT ![t] = "returned"]
            /\ UNCHANGED fault
  /\ UNCHANGED <<filename, force, tracker, length, partial_len, stream,
                 events, requests, calls, before>>

\* The future is dropped at an await point, or the process dies: run() goes
\* no further and its handle is closed; the files stay as they are.
Cancel(t) ==
  /\ pc[t] \in Running
  /\ LET f == [file EXCEPT ![t] = NoHandle] IN
       /\ file' = f
       /\ data' = Reclaim(dir, f, data)
  /\ pc' = [pc EXCEPT ![t] = "cancelled"]
  /\ bytes' = [bytes EXCEPT ![t] = <<>>]
  /\ fault' = [fault EXCEPT ![t] = "cancel"]
  /\ UNCHANGED <<dir, filename, force, tracker, length, partial_len, stream,
                 result, events, requests, calls, before>>

\* The one task of the specification of a single download.
SingleTask == Min(Tasks)


(***************************************************************************)
(* The consumer of a task's progress events.  Progress and Events are the  *)
(* two ends of the channel DownloadTask::new makes: send never waits,      *)
(* events may be buffered or dropped, and the stream ends when the sending *)
(* end is dropped.                                                         *)
(***************************************************************************)
CInit ==
  /\ seen = [t \in Tasks |-> 0]
  /\ consumer = [t \in Tasks |-> "recv"]

\* fetch.rs:122  events.recv().await yields an event: the next one, or a
\* later one when the channel dropped those in between.
recv(t) ==
  /\ consumer[t] = "recv"
  /\ \E k \in (seen[t] + 1)..Len(events[t]) : seen' = [seen EXCEPT ![t] = k]
  /\ UNCHANGED consumer

\* The consumer stops reading and drops its end of the channel.
drop_events(t) ==
  /\ consumer[t] = "recv"
  /\ consumer' = [consumer EXCEPT ![t] = "gone"]
  /\ UNCHANGED seen

\* fetch.rs:105-107  the spawned future owns the task and with it the sending
\* end; both are dropped when run() has returned.
sender_dropped(t) == pc[t] = "returned"

\* fetch.rs:122  events.recv().await yields None: nothing is left to read and
\* the sending end is gone; the loop of the consumer ends.
recv_none(t) ==
  /\ consumer[t] = "recv"
  /\ seen[t] = Len(events[t])
  /\ sender_dropped(t)
  /\ consumer' = [consumer EXCEPT ![t] = "join"]
  /\ UNCHANGED seen

\* fetch.rs:127  handle.await returns when the spawned future has completed.
handle_await(t) ==
  /\ consumer[t] = "join"
  /\ pc[t] = "returned"
  /\ consumer' = [consumer EXCEPT ![t] = "done"]
  /\ UNCHANGED seen

download_db_forceOff == FALSE

\* fetch.rs:106  task.force(true)
download_db_force == TRUE

\* fetch.rs:100-109  download_db: a new task (tracker Some), force(true), and
\* run() spawned.
download_db(t) ==
  /\ pc[t] = "idle"
  /\ calls[t] = 0
  /\ force' = [force EXCEPT ![t] = download_db_force]
  /\ tracker' = [tracker EXCEPT ![t] = TRUE]
  /\ pc' = [pc EXCEPT ![t] = "entry"]
  /\ calls' = [calls EXCEPT ![t] = @ + 1]
  /\ before' = [before EXCEPT ![t] =
                  [ino |-> dir[filename[t]], content |-> content(filename[t])]]
  /\ UNCHANGED <<dir, data, filename, length, partial_len, file, stream, bytes,
                 result, events, requests, fault>>

(***************************************************************************)
(*                  PART II: the pipeline of src/cli/add.rs                *)
(***************************************************************************)
VARIABLES
  map,          \* PackageMap: name -> entity id, or NoEntity
  formulas,     \* ReadStorage<Formula>: entity id -> Formula, or NoFormula
  config,       \* Option<Config>: a Config, or NoConfig
  cache_files,  \* file names present in <cache_dir>/pkg
  opts,         \* Opts.names, the names asked for
  infos,        \* WriteStorage<PackageInfo>: entity id -> PackageInfo, or NoInfo
  stages,       \* WriteStorage<Stage>: entity id -> Stage, or NoStage
  names,        \* ResolveDeps.names, the work queue
  errors,       \* the errors vector of each system
  pb,           \* the progress bar of the pass that runs
  todo,         \* the entities the running pass's join has yet to visit
  heads,        \* the HEAD requests sent so far: entity id and url
  step          \* where run() stands

pvars == <<map, formulas, config, cache_files, opts, infos, stages, names, errors,
           pb, todo, heads, step>>

Ids == 1..4
NoEntity == 0
NoFormula == [name |-> <<>>]
NoInfo == [name |-> <<>>]
NoStage == "none"
NoConfig == [target |-> "none"]
NoBottles == [rebuild |-> 0, files |-> <<>>, present |-> FALSE]

\* Names: a name is a sequence of tokens, "@" a token of its own.
foo == <<"foo">>
bar == <<"bar">>
baz == <<"baz", "@", "2">>
stub == <<"stub">>
ghost == <<"ghost">>
Names == {foo, bar, baz, stub, ghost}

Archs == {"arm64_sonoma", "arm64_ventura", "x86_64_linux", "all"}

\* RelocateMode::try_from(cellar): the two markers Homebrew writes parse, any
\* other string does not.
RelocateMode(cellar) ==
  IF cellar = ":any" THEN "Any"
  ELSE IF cellar = ":any_skip_relocation" THEN "Skip" ELSE "Err"

\* One file of a bottle set: { url, sha256, cellar }.
BottleFile(n, arch, sha, cellar) ==
  [url |-> <<"https://ghcr.io/v2/">> \o n \o <<"/", arch>>,
   sha256 |-> sha, cellar |-> cellar]

Bottles(rebuild, files) == [rebuild |-> rebuild, files |-> files, present |-> TRUE]

Formula(n, version, deps, stable) ==
  [name |-> n, full_name |-> n, stable |-> version, revision |-> 0,
   dependencies |-> deps, bottle |-> stable]

\* The bottle sets foo may have: no stable channel, or files for any set of
\* architectures.
FooBottles ==
  {NoBottles} \cup
  {Bottles(0, [a \in as |-> BottleFile(foo, a, "abcd", ":any")]) :
     as \in SUBSET Archs}

\* bar ships one portable bottle, rebuilt twice.
BarBottles ==
  Bottles(2, [a \in {"all"} |->
                BottleFile(bar, a, "beef", ":any_skip_relocation")])

\* baz@2 ships a native bottle and a portable one whose cellar does not parse.
BazBottles ==
  Bottles(2, [a \in {"arm64_sonoma", "all"} |->
                BottleFile(baz, a, "cafe",
                           IF a = "all" THEN "/opt/weird" ELSE ":any")])

\* The dependency lists of foo and bar: a chain, a cycle, a self-dependency,
\* a dependency on a name the store does not know.
Graphs ==
  {[foo |-> <<bar>>, bar |-> <<>>],
   [foo |-> <<bar>>, bar |-> <<foo>>],
   [foo |-> <<foo>>, bar |-> <<>>],
   [foo |-> <<ghost, bar>>, bar |-> <<baz>>]}

\* What is asked for on the command line.
Requests ==
  {<<>>, <<foo>>, <<bar>>, <<baz>>, <<ghost, foo>>, <<stub, bar>>,
   <<foo, baz>>}

Mirror(url, oci) == [url |-> url, oci |-> oci]

Configs ==
  {[target |-> t, os_fallback |-> fb, mirror_list |-> ms] :
     t \in {"arm64_sonoma", "x86_64_linux"},
     fb \in {<<>>, <<"arm64_ventura">>, <<"arm64_ventura", "arm64_sonoma">>},
     ms \in {<<>>,
             <<Mirror("https://m/x", TRUE), Mirror("https://n", FALSE)>>,
             <<Mirror("https://n", FALSE), Mirror("https://m/x", TRUE)>>}}

\* format!("{}", n) for a number: its decimal digits.
RECURSIVE Decimal(_)
Decimal(n) ==
  LET digit == <<"0", "1", "2", "3", "4", "5", "6", "7", "8", "9">>[(n % 10) + 1]
  IN IF n < 10 THEN <<digit>> ELSE Decimal(n \div 10) \o <<digit>>

\* str::replace("@", "/")
replace(s, from, to) == [i \in 1..Len(s) |-> IF s[i] = from THEN to ELSE s[i]]

\* PackageInfo::new(name): every other field at its Default.
PackageInfo_new(n) ==
  [name |-> n, full_name |-> <<>>, version_full |-> <<>>, arch |-> "",
   rebuild |-> 0, relocate |-> "Unknown", sha256 |-> "", url |-> <<>>,
   package_name |-> <<>>, size |-> 0, download_size |-> 0]

\* PackageInfo::with_name(full_name, version, revision), for revision 0.
with_name(info, full_name, version, revision) ==
  [info EXCEPT !.full_name = full_name, !.version_full = <<version>>]

\* add.rs:181  format!("{}-{}.{}.bottle.tar.gz", name, version_full, arch)
package_name(info) ==
  info.name \o <<"-">> \o info.version_full \o <<".", info.arch>>
    \o <<".bottle.tar.gz">>

SeqToSet(s) == {s[i] : i \in 1..Len(s)}

Join3 == {id \in Ids : formulas[id] # NoFormula /\ infos[id] # NoInfo
                        /\ stages[id] # NoStage}

Join2 == {id \in Ids : infos[id] # NoInfo /\ stages[id] # NoStage}

count(storage, none) == Cardinality({id \in Ids : storage[id] # none})

\* The Formula Store: foo, bar and baz@2 have a Formula, stub has an entity
\* without one, ghost has no entity.
Store(g, fb) ==
  [id \in Ids |->
     IF id = 1 THEN Formula(foo, "1.0", g.foo, fb)
     ELSE IF id = 2 THEN Formula(bar, "2.1", g.bar, BarBottles)
     ELSE IF id = 3 THEN Formula(baz, "2.0", <<>>, BazBottles)
     ELSE NoFormula]

PInit ==
  /\ map = [n \in Names |->
              IF n = foo THEN 1 ELSE IF n = bar THEN 2
              ELSE IF n = baz THEN 3 ELSE IF n = stub THEN 4 ELSE NoEntity]
  /\ \E g \in Graphs, fb \in FooBottles : formulas = Store(g, fb)
  /\ config \in Configs \cup {NoConfig}
  /\ cache_files \in {{}, {<<"foo", "-", "1.0", ".", "all", ".bottle.tar.gz">>}}
  /\ infos = [id \in Ids |-> NoInfo]
  /\ stages = [id \in Ids |-> NoStage]
  /\ opts \in Requests
  /\ names = opts
  /\ errors = [ResolveDeps |-> <<>>, ResolveUrlSystem |-> <<>>,
               ResolveSize |-> <<>>]
  /\ pb = [length |-> 0, position |-> 0]
  /\ todo = {}
  /\ heads = {}
  /\ step = "ResolveDeps"

Error(kind, n, info) == [kind |-> kind, name |-> n, info |-> info]

pushReplace(system, e) == [errors EXCEPT ![system] = <<e>>]

\* add.rs:71, 114, 132, 142, 191  self.errors.push(..)
push(system, e) == [errors EXCEPT ![system] = Append(@, e)]

already_resolvedNever(id) == FALSE

\* add.rs:75  infos.contains(id)
already_resolved(id) == infos[id] # NoInfo

stages_insertAlone(id, stage) ==
  [i \in Ids |-> IF i = id THEN stage ELSE NoStage]

\* add.rs:91  stages.insert(id, ..): the storage gets or replaces the
\* component of entity id and keeps every other entity's.
stages_insert(id, stage) == [stages EXCEPT ![id] = stage]

\* add.rs:66-92  the body of `for name in self.names.pop_front()`.  The loop
\* iterates over the Option that pop_front returns: the body runs for the
\* front name, once, or not at all.
ResolveDeps_turn ==
  IF names = <<>>
  THEN UNCHANGED <<names, errors, infos, stages>>
  ELSE LET name == Head(names)
           id == map[name]
           formula == formulas[id]
       IN
       IF id = NoEntity
       THEN /\ errors' = push("ResolveDeps", Error("Resolve", name, NoInfo))
            /\ names' = Tail(names)
            /\ UNCHANGED <<infos, stages>>
       ELSE IF already_resolved(id)
       THEN /\ names' = Tail(names)
            /\ UNCHANGED <<errors, infos, stages>>
       ELSE IF formula = NoFormula
       THEN /\ errors' = push("ResolveDeps", Error("Resolve", name, NoInfo))
            /\ names' = Tail(names)
            /\ UNCHANGED <<infos, stages>>
       ELSE /\ infos' = [infos EXCEPT ![id] =
                           with_name(PackageInfo_new(formula.name),
                                     formula.full_name, formula.stable,
                                     formula.revision)]
            /\ names' = Tail(names) \o formula.dependencies
            /\ stages' = stages_insert(id, "Resolve")
            /\ UNCHANGED errors

\* add.rs:65-93, 490-491  ResolveDeps::run, as run() calls it: once, and run()
\* goes on to ResolveUrlSystem.
ResolveDeps_run ==
  /\ step = "ResolveDeps"
  /\ step' = "ResolveUrl"
  /\ ResolveDeps_turn
  /\ UNCHANGED <<map, formulas, config, cache_files, opts, pb, todo, heads>>

\* add.rs:62-65  ResolveDeps is a specs System: a caller may dispatch it again
\* while its queue holds names; each dispatch is one call of run.
ResolveDeps_dispatch ==
  /\ step = "ResolveDeps"
  /\ names # <<>>
  /\ ResolveDeps_turn
  /\ UNCHANGED <<map, formulas, config, cache_files, opts, pb, todo, heads, step>>

\* add.rs:120  the architectures tried, in order.
arch_orderFallbackFirst(cfg) == cfg.os_fallback \o <<cfg.target, "all">>

arch_order(cfg) == <<cfg.target, "all">> \o cfg.os_fallback

\* add.rs:119-126  the first architecture of the order that the bottle set
\* has a file for; "" when there is none (bottle = None).
select_arch(bottles, cfg) ==
  LET order == arch_order(cfg)
      hits == {i \in 1..Len(order) : order[i] \in DOMAIN bottles.files}
  IN IF hits = {} THEN "" ELSE order[Min(hits)]

\* add.rs:110-117  no "stable" entry in formula.bottle
channel_unavailable(info) == Error("Prebuilt", info.name, info)

\* add.rs:128-135  no architecture matched
no_bottle_for_target(info, bottles) == Error("Prebuilt", info.name, info)

\* add.rs:139-145  bottle.cellar does not convert to a RelocateMode
unsupported_relocation(info) == Error("Unimplemented", info.name, info)

mirror_urlLastMirror(info, cfg) ==
  LET mirror == cfg.mirror_list[Len(cfg.mirror_list)] IN
  IF mirror.oci
  THEN <<mirror.url, "/">> \o replace(info.name, "@", "/")
         \o <<"/blobs/sha256:", info.sha256>>
  ELSE <<mirror.url, "/">> \o info.name \o <<"-">> \o info.version_full
         \o <<".", info.arch, ".bottle">>
         \o (IF info.rebuild # 0 THEN <<".">> \o Decimal(info.rebuild) ELSE <<>>)
         \o <<".tar.gz">>

\* add.rs:147-153  the url on the first mirror of the list
mirror_url(info, cfg) ==
  LET mirror == Head(cfg.mirror_list) IN
  IF mirror.oci
  THEN <<mirror.url, "/">> \o replace(info.name, "@", "/")
         \o <<"/blobs/sha256:", info.sha256>>
  ELSE <<mirror.url, "/">> \o info.name \o <<"-">> \o info.version_full
         \o <<".", info.arch, ".bottle">>
         \o (IF info.rebuild # 0 THEN <<".">> \o Decimal(info.rebuild) ELSE <<>>)
         \o <<".tar.gz">>

\* add.rs:147-156
resolve_url(info, bottle, cfg) ==
  IF cfg.mirror_list # <<>> THEN mirror_url(info, cfg) ELSE bottle.url

before_relocateWithSha(info, bottles, arch) ==
  [info EXCEPT !.arch = arch, !.rebuild = bottles.rebuild,
               !.sha256 = bottles.files[arch].sha256]

\* add.rs:121, 137  the fields written before bottle.cellar is converted to a
\* RelocateMode: the architecture and the rebuild number.
before_relocate(info, bottles, arch) ==
  [info EXCEPT !.arch = arch, !.rebuild = bottles.rebuild]

\* add.rs:105-106  config.expect("config not set"); the pass joins formulas,
\* infos and stages.
ResolveUrlSystem_begin ==
  /\ step = "ResolveUrl"
  /\ IF config = NoConfig
     THEN /\ step' = "panicked"
          /\ UNCHANGED <<pb, todo>>
     ELSE /\ step' = "ResolveUrl.loop"
          /\ pb' = [length |-> count(stages, NoStage), position |-> 0]
          /\ todo' = Join3
  /\ UNCHANGED <<map, formulas, config, cache_files, opts, infos, stages, names,
                 errors, heads>>

\* add.rs:107-160  one turn of the loop of ResolveUrlSystem::run
ResolveUrlSystem_package ==
  /\ step = "ResolveUrl.loop"
  /\ todo # {}
  /\ LET id == Min(todo)
         formula == formulas[id]
         info == infos[id]
         bottles == formula.bottle
         arch == select_arch(bottles, config)
         bottle == bottles.files[arch]
         info1 == before_relocate(info, bottles, arch)
         info2 == [info1 EXCEPT !.relocate = RelocateMode(bottle.cellar),
                                !.sha256 = bottle.sha256]
         info3 == [info2 EXCEPT !.url = resolve_url(info2, bottle, config)]
     IN
     /\ todo' = todo \ {id}
     /\ IF ~bottles.present
        THEN /\ errors' = push("ResolveUrlSystem", channel_unavailable(info))
             /\ UNCHANGED <<infos, pb>>
        ELSE IF arch = ""
        THEN /\ errors' = push("ResolveUrlSystem",
                               no_bottle_for_target(info, bottles))
             /\ UNCHANGED <<infos, pb>>
        ELSE IF RelocateMode(bottle.cellar) = "Err"
        THEN /\ infos' = [infos EXCEPT ![id] = info1]
             /\ errors' = push("ResolveUrlSystem", unsupported_relocation(info1))
             /\ UNCHANGED pb
        ELSE /\ infos' = [infos EXCEPT ![id] = info3]
             /\ pb' = [pb EXCEPT !.position = @ + 1]
             /\ UNCHANGED errors
  /\ UNCHANGED <<map, formulas, config, cache_files, opts, stages, names, heads, step>>

join_exhaustedEarly == TRUE

\* add.rs:107, 177  `for .. in (..).join()` ends when the join has yielded
\* every entity it holds.
join_exhausted == todo = {}

\* add.rs:161  the loop is over; run() goes on to ResolveSize (add.rs:497).
ResolveUrlSystem_end ==
  /\ step = "ResolveUrl.loop"
  /\ join_exhausted
  /\ step' = "ResolveSize"
  /\ UNCHANGED <<map, formulas, config, cache_files, opts, infos, stages, names,
                 errors, pb, todo, heads>>

\* What a HEAD request can come to: a transport error, a 2xx answer with or
\* without a usable content-length header, another status.
ArchiveSize == 7

HeadResponses ==
  {[kind |-> "Err", content_length |-> 0],
   [kind |-> "Success", content_length |-> 0],
   [kind |-> "Success", content_length |-> ArchiveSize],
   [kind |-> "Failure", content_length |-> 0]}

\* add.rs:182  cache_dir.join(&info.package_name).exists()
cachedNever(f) == FALSE

cached(f) == f \in cache_files

\* add.rs:174-176  the pass joins infos and stages.
ResolveSize_begin ==
  /\ step = "ResolveSize"
  /\ step' = "ResolveSize.loop"
  /\ pb' = [length |-> count(infos, NoInfo), position |-> 0]
  /\ todo' = Join2
  /\ UNCHANGED <<map, formulas, config, cache_files, opts, infos, stages, names,
                 errors, heads>>

\* add.rs:177-210  one turn of the loop of ResolveSize::run
ResolveSize_package ==
  /\ step = "ResolveSize.loop"
  /\ todo # {}
  /\ LET id == Min(todo)
         info == [infos[id] EXCEPT !.package_name = package_name(infos[id])]
     IN
     /\ todo' = todo \ {id}
     /\ IF cached(info.package_name)
        THEN /\ infos' = [infos EXCEPT ![id] = info]
             /\ pb' = [pb EXCEPT !.length = @ - 1]
             /\ UNCHANGED <<errors, heads>>
        ELSE /\ heads' = heads \cup {[id |-> id, url |-> info.url]}
             /\ \E resp \in HeadResponses :
                  IF resp.kind = "Err"
                  THEN /\ infos' = [infos EXCEPT ![id] = info]
                       /\ errors' = push("ResolveSize",
                                         Error("ResolveNet", info.name, info))
                       /\ UNCHANGED pb
                  ELSE /\ infos' = [infos EXCEPT ![id] =
                                      IF resp.kind = "Success"
                                      THEN [info EXCEPT
                                              !.size = resp.content_length,
                                              !.download_size = resp.content_length]
                                      ELSE info]
                       /\ pb' = [pb EXCEPT !.position = @ + 1]
                       /\ UNCHANGED errors
  /\ UNCHANGED <<map, formulas, config, cache_files, opts, stages, names, step>>

\* add.rs:211, 512  pb.finish; run() returns Ok(()).
ResolveSize_end ==
  /\ step = "ResolveSize.loop"
  /\ join_exhausted
  /\ step' = "done"
  /\ UNCHANGED <<map, formulas, config, cache_files, opts, infos, stages, names,
                 errors, pb, todo, heads>>

(***************************************************************************)
(*       PART III: the stage functions of add.rs that run() has off        *)
(* check_packages, unpack_packages and relocate_packages stand inside the  *)
(* block comment of add.rs:219-485 and their calls in run() are commented  *)
(* out (add.rs:503-510).  They are modelled as they are written, called in *)
(* the order of those calls, on the archives the download stage left in    *)
(* the cache.  Each returns at its first error (`?`), and so does the run. *)
(***************************************************************************)
VARIABLES
  pinfos,       \* infos: &PackageInfos, the BTreeMap name -> PackageInfo
  archive,      \* the file at p.pacakge_path: "good", "corrupt" or "missing"
  cellar,       \* the files under cellar_dir: path -> content, or NoContent
  meta,         \* BTreeMap name -> PackageMeta, or NoMeta
  istage,       \* the stage function that runs, or the last that returned
  icur,         \* the place of the running loop in infos.values()
  ifile,        \* relocate_packages: the place in m.files
  ipass,        \* calls of relocate_packages made
  patched,      \* relocate_packages: patched_binaries and patched_text
  ipb,          \* the progress bar of the running stage function
  iresult       \* IOk, or the Err(..) that ended the run

ivars == <<pinfos, archive, cellar, meta, istage, icur, ifile, ipass, patched,
           ipb, iresult>>

MaxPasses == 2      \* calls of relocate_packages on the same cellar

Pkgs == {"bar", "foo"}

\* BTreeMap::values() goes by the order of the keys.
PkgOrder == <<"bar", "foo">>

Placeholder == "@@HOMEBREW_PREFIX@@"
ConcretePath == "/opt/pactree"

NoContent == [kind |-> "none", body |-> <<>>]
NoMeta == [keg |-> ""]
IOk == [kind |-> "Ok", name |-> "", file |-> ""]

\* An Error of add.rs:23-47 with the package and the file or path it carries.
Failure(kind, p, f) == [kind |-> kind, name |-> p, file |-> f]

Version(p) == IF p = "foo" THEN "1.0" ELSE "2.1"

\* add.rs:257  format!("{}/{}", p.name, p.version_full)
keg(p) == p \o "/" \o Version(p)

\* archive.entries(): the members of the bottle of p.
Entries(p) ==
  IF p = "foo"
  THEN <<keg(p) \o "/bin/foo", keg(p) \o "/etc/foo.conf", keg(p) \o "/README">>
  ELSE <<keg(p) \o "/lib/bar.pc">>

Files == UNION {SeqToSet(Entries(p)) : p \in Pkgs}

\* What the archive holds for a member: an object file with a load path under
\* the placeholder, text with two placeholders, text with none, text with one.
Shipped(f) ==
  IF f = keg("foo") \o "/bin/foo"
  THEN [kind |-> "obj", body |-> <<Placeholder, "/lib/libbar.dylib">>]
  ELSE IF f = keg("foo") \o "/etc/foo.conf"
  THEN [kind |-> "text",
        body |-> <<"lib=", Placeholder, "/lib;inc=", Placeholder, "/include">>]
  ELSE IF f = keg("foo") \o "/README"
  THEN [kind |-> "text", body |-> <<"foo, a tool">>]
  ELSE [kind |-> "text", body |-> <<"prefix=", Placeholder>>]

replace_textFirstOnly(body) ==
  LET at == {i \in 1..Len(body) : body[i] = Placeholder} IN
  [some |-> at # {},
   text |-> [i \in 1..Len(body) |->
               IF at # {} /\ i = Min(at) THEN ConcretePath ELSE body[i]]]

\* RelocationPattern::replace_text: Some(text with every placeholder replaced
\* by its path) when a placeholder occurs, None otherwise.
replace_text(body) ==
  [some |-> Placeholder \in SeqToSet(body),
   text |-> replace(body, Placeholder, ConcretePath)]

\* try_open_ofile: Ok for an object file.
try_open_ofile(c) == c.kind = "obj"

\* Relocations::from_ofile(..).is_empty(): no load path holds a placeholder.
reloc_is_empty(c) == Placeholder \notin SeqToSet(c.body)

\* std::fs::read_to_string: Ok for a file that is there and is text.
read_to_string(c) == c.kind = "text"

IInit ==
  /\ pinfos \in [Pkgs -> {[relocate |-> r] : r \in {"Any", "Skip"}}]
  /\ archive \in [Pkgs -> {"good", "corrupt", "missing"}]
  /\ cellar = [f \in Files |-> NoContent]
  /\ meta = [p \in Pkgs |-> NoMeta]
  /\ istage = "check_packages"
  /\ icur = 1
  /\ ifile = 1
  /\ ipass = 0
  /\ patched = [binaries |-> <<>>, text |-> <<>>]
  /\ ipb = [length |-> Cardinality(Pkgs), position |-> 0]
  /\ iresult = IOk

\* `?`: the stage function returns the error, and run() returns it.
Abort(e) ==
  /\ iresult' = e
  /\ UNCHANGED <<pinfos, archive, istage, icur, ifile, ipass, patched, ipb>>

InLoop(stage) ==
  /\ istage = stage
  /\ iresult = IOk
  /\ icur <= Len(PkgOrder)

AfterLoop(stage) ==
  /\ istage = stage
  /\ iresult = IOk
  /\ icur > Len(PkgOrder)

\* add.rs:250-281  one turn of the loop of check_packages
check_packages_package ==
  /\ InLoop("check_packages")
  /\ LET p == PkgOrder[icur] IN
     \E outcome \in {"ok", "open", "entries"} :
       IF archive[p] # "good"
       THEN \* add.rs:253  check_sha256(..).map_err(|e| Error::Download(..))?
            Abort(Failure("Download", p, "")) /\ UNCHANGED <<cellar, meta>>
       ELSE IF outcome # "ok"
       THEN \* add.rs:258-259  PackageArchive::open, archive.entries
            Abort(Failure("Package", p, "")) /\ UNCHANGED <<cellar, meta>>
       ELSE /\ meta' = [meta EXCEPT ![p] =
                          [keg |-> keg(p), files |-> Entries(p),
                           patched_binaries |-> <<>>, patched_text |-> <<>>]]
            /\ icur' = icur + 1
            /\ ipb' = [ipb EXCEPT !.position = @ + 1]
            /\ UNCHANGED <<pinfos, archive, cellar, istage, ifile, ipass,
                           patched, iresult>>

\* add.rs:282-283, 505-506  Ok(result); run() goes on to unpack_packages,
\* which makes its directories first (add.rs:287-288).
check_packages_end ==
  /\ AfterLoop("check_packages")
  /\ \E outcome \in Outcomes :
       IF outcome = "error"
       THEN /\ iresult' = Failure("Io", "", "meta/local")
            /\ UNCHANGED <<istage, icur>>
       ELSE /\ istage' = "unpack_packages"
            /\ icur' = 1
            /\ UNCHANGED iresult
  /\ UNCHANGED <<pinfos, archive, cellar, meta, ifile, ipass, patched, ipb>>

\* add.rs:289-299  one turn of the loop of unpack_packages: make the keg's
\* directory, open the archive, unpack every member, save the package info.
\* An unpack that fails may have written the first members.
unpack_packages_package ==
  /\ InLoop("unpack_packages")
  /\ LET p == PkgOrder[icur]
         written(k) == [f \in Files |->
                          IF \E i \in 1..k : Entries(p)[i] = f
                          THEN Shipped(f) ELSE cellar[f]]
     IN
     \E outcome \in {"ok", "create_dir_all", "open", "unpack", "save"},
        k \in 0..Len(Entries(p)) :
       IF outcome = "create_dir_all"
       THEN Abort(Failure("Io", "", keg(p))) /\ UNCHANGED <<cellar, meta>>
       ELSE IF outcome = "open"
       THEN Abort(Failure("Package", p, "")) /\ UNCHANGED <<cellar, meta>>
       ELSE IF outcome = "unpack"
       THEN /\ k < Len(Entries(p))
            /\ cellar' = written(k)
            /\ Abort(Failure("Package", p, ""))
            /\ UNCHANGED meta
       ELSE /\ k = Len(Entries(p))
            /\ cellar' = written(k)
            /\ IF outcome = "save"
               THEN Abort(Failure("PackageInfo", p, "")) /\ UNCHANGED meta
               ELSE /\ icur' = icur + 1
                    /\ UNCHANGED <<pinfos, archive, meta, istage, ifile, ipass,
                                   patched, ipb, iresult>>

\* add.rs:304-308  relocate_packages is called: it makes its directory,
\* derives the RelocationPattern and shows a bar for infos.len() packages.
relocate_packages_begin ==
  \E outcome \in Outcomes :
    IF outcome = "error"
    THEN /\ iresult' = Failure("Io", "", "meta/local")
         /\ UNCHANGED <<istage, icur, ifile, ipass, patched, ipb>>
    ELSE /\ istage' = "relocate_packages"
         /\ icur' = 1
         /\ ifile' = 1
         /\ ipass' = ipass + 1
         /\ patched' = [binaries |-> <<>>, text |-> <<>>]
         /\ ipb' = [length |-> Cardinality(Pkgs), position |-> 0]
         /\ UNCHANGED iresult

\* add.rs:300, 507  Ok(()); run() goes on to relocate_packages.
unpack_packages_end ==
  /\ AfterLoop("unpack_packages")
  /\ relocate_packages_begin
  /\ UNCHANGED <<pinfos, archive, cellar, meta>>

\* add.rs:310-314  a package of RelocateMode::Skip is taken off the bar.
relocate_packages_skip ==
  /\ InLoop("relocate_packages")
  /\ pinfos[PkgOrder[icur]].relocate = "Skip"
  /\ ipb' = [ipb EXCEPT !.length = @ - 1]
  /\ icur' = icur + 1
  /\ UNCHANGED <<pinfos, archive, cellar, meta, istage, ifile, ipass, patched,
                 iresult>>

\* add.rs:319-342  one turn of the loop over m.files.  A file that is not
\* there opens neither as an object file nor as text.
relocate_packages_file ==
  /\ InLoop("relocate_packages")
  /\ pinfos[PkgOrder[icur]].relocate # "Skip"
  /\ ifile <= Len(meta[PkgOrder[icur]].files)
  /\ LET p == PkgOrder[icur]
         f == meta[p].files[ifile]
         c == cellar[f]
         next == /\ ifile' = ifile + 1
                 /\ UNCHANGED <<pinfos, archive, istage, icur, ipass, ipb,
                                iresult>>
     IN
     \E outcome \in {"ok", "from_ofile", "apply_file", "with_permission",
                     "write"},
        truncated \in BOOLEAN :
       IF try_open_ofile(c)
       THEN IF outcome = "from_ofile"
                 \/ (outcome = "apply_file" /\ ~reloc_is_empty(c))
            THEN /\ Abort(Failure("PackageRelocation", p, f))
                 /\ UNCHANGED <<cellar, meta>>
            ELSE IF ~reloc_is_empty(c)
            THEN /\ cellar' = [cellar EXCEPT ![f].body =
                                 replace(@, Placeholder, ConcretePath)]
                 /\ patched' = [patched EXCEPT !.binaries = Append(@, f)]
                 /\ next
                 /\ UNCHANGED meta
            ELSE next /\ UNCHANGED <<cellar, meta, patched>>
       ELSE IF read_to_string(c) /\ replace_text(c.body).some
       THEN IF outcome = "with_permission"
            THEN /\ Abort(Failure("Io", "", f))
                 /\ UNCHANGED <<cellar, meta>>
            ELSE IF outcome = "write"
            THEN /\ Abort(Failure("PackageRelocation", p, f))
                 /\ cellar' = IF truncated
                              THEN [cellar EXCEPT ![f].body = <<>>]
                              ELSE cellar
                 /\ UNCHANGED meta
            ELSE /\ cellar' = [cellar EXCEPT ![f].body = replace_text(c.body).text]
                 /\ patched' = [patched EXCEPT !.text = Append(@, f)]
                 /\ next
                 /\ UNCHANGED meta
       ELSE next /\ UNCHANGED <<cellar, meta, patched>>

\* add.rs:343-347  the loop over m.files is over: the lists go into the
\* PackageMeta, which is saved.
relocate_packages_package ==
  /\ InLoop("relocate_packages")
  /\ pinfos[PkgOrder[icur]].relocate # "Skip"
  /\ ifile > Len(meta[PkgOrder[icur]].files)
  /\ meta' = [meta EXCEPT ![PkgOrder[icur]].patched_binaries = patched.binaries,
                          ![PkgOrder[icur]].patched_text = patched.text]
  /\ \E outcome \in Outcomes :
       IF outcome = "error"
       THEN /\ iresult' = Failure("PackageInfo", PkgOrder[icur], "")
            /\ UNCHANGED <<icur, ifile, patched, ipb>>
       ELSE /\ icur' = icur + 1
            /\ ifile' = 1
            /\ patched' = [binaries |-> <<>>, text |-> <<>>]
            /\ ipb' = [ipb EXCEPT !.position = @ + 1]
            /\ UNCHANGED iresult
  /\ UNCHANGED <<pinfos, archive, cellar, istage, ipass>>

\* add.rs:349  Ok(())
relocate_packages_end ==
  /\ AfterLoop("relocate_packages")
  /\ istage' = "relocated"
  /\ UNCHANGED <<pinfos, archive, cellar, meta, icur, ifile, ipass, patched,
                 ipb, iresult>>

\* relocate_packages is called once more on the same infos, meta and cellar.
relocate_packages_again ==
  /\ istage = "relocated"
  /\ iresult = IOk
  /\ ipass < MaxPasses
  /\ relocate_packages_begin
  /\ UNCHANGED <<pinfos, archive, cellar, meta>>

\* The stage functions at rest, while another part is looked at.
IIdle ==
  /\ pinfos = [p \in Pkgs |-> [relocate |-> "Any"]]
  /\ archive = [p \in Pkgs |-> "good"]
  /\ IInit

NextInstall ==
  \/ check_packages_package /\ UNCHANGED <<dvars, pvars, cvars>>
  \/ check_packages_end /\ UNCHANGED <<dvars, pvars, cvars>>
  \/ unpack_packages_package /\ UNCHANGED <<dvars, pvars, cvars>>
  \/ unpack_packages_end /\ UNCHANGED <<dvars, pvars, cvars>>
  \/ relocate_packages_skip /\ UNCHANGED <<dvars, pvars, cvars>>
  \/ relocate_packages_file /\ UNCHANGED <<dvars, pvars, cvars>>
  \/ relocate_packages_package /\ UNCHANGED <<dvars, pvars, cvars>>
  \/ relocate_packages_end /\ UNCHANGED <<dvars, pvars, cvars>>
  \/ relocate_packages_again /\ UNCHANGED <<dvars, pvars, cvars>>

vars == <<dvars, pvars, cvars, ivars>>

\* The download engine at rest, while the pipeline is looked at.
DIdle ==
  /\ filename = [t \in Tasks |-> "a"]
  /\ dir = [p \in Paths |-> NoFile]
  /\ data = [i \in Inodes |-> <<>>]
  /\ DInit

\* The pipeline at rest, while the download engine is looked at.
PIdle ==
  /\ formulas = Store([foo |-> <<bar>>, bar |-> <<>>], NoBottles)
  /\ config = NoConfig
  /\ cache_files = {}
  /\ opts = <<>>
  /\ PInit

\* add.rs:487-513  run(): the three systems, one after the other.
Next ==
  \/ ResolveDeps_run /\ UNCHANGED <<dvars, cvars, ivars>>
  \/ ResolveUrlSystem_begin /\ UNCHANGED <<dvars, cvars, ivars>>
  \/ ResolveUrlSystem_package /\ UNCHANGED <<dvars, cvars, ivars>>
  \/ ResolveUrlSystem_end /\ UNCHANGED <<dvars, cvars, ivars>>
  \/ ResolveSize_begin /\ UNCHANGED <<dvars, cvars, ivars>>
  \/ ResolveSize_package /\ UNCHANGED <<dvars, cvars, ivars>>
  \/ ResolveSize_end /\ UNCHANGED <<dvars, cvars, ivars>>

Init == DIdle /\ PInit /\ CInit /\ IIdle

Spec == Init /\ [][Next]_vars

\* The worlds the systems are dispatched on: every graph and request, foo's
\* bottle set absent, portable, or for one target, a Config for either target.
PInitSystems ==
  /\ \E g \in Graphs, fb \in FooBottles :
       /\ fb.present => DOMAIN fb.files \in {{"all"}, {"x86_64_linux"}}
       /\ formulas = Store(g, fb)
  /\ \E t \in {"arm64_sonoma", "x86_64_linux"} :
       config = [target |-> t, os_fallback |-> <<"arm64_ventura">>,
                 mirror_list |-> <<Mirror("https://n", FALSE),
                                   Mirror("https://m/x", TRUE)>>]
  /\ PInit

\* The three systems under a caller that dispatches ResolveDeps any number of
\* times before it goes on as run() does.
NextSystems ==
  \/ ResolveDeps_dispatch /\ UNCHANGED <<dvars, cvars, ivars>>
  \/ ResolveDeps_run /\ UNCHANGED <<dvars, cvars, ivars>>
  \/ ResolveUrlSystem_begin /\ UNCHANGED <<dvars, cvars, ivars>>
  \/ ResolveUrlSystem_package /\ UNCHANGED <<dvars, cvars, ivars>>
  \/ ResolveUrlSystem_end /\ UNCHANGED <<dvars, cvars, ivars>>
  \/ ResolveSize_begin /\ UNCHANGED <<dvars, cvars, ivars>>
  \/ ResolveSize_package /\ UNCHANGED <<dvars, cvars, ivars>>
  \/ ResolveSize_end /\ UNCHANGED <<dvars, cvars, ivars>>

InitSystems == DIdle /\ PInitSystems /\ CInit /\ IIdle

SpecSystems == InitSystems /\ [][NextSystems]_vars

\* One DownloadTask, run any number of times, one call after the other.
DNext ==
  \/ Call(SingleTask) /\ UNCHANGED <<pvars, cvars, ivars>>
  \/ FastPath(SingleTask) /\ UNCHANGED <<pvars, cvars, ivars>>
  \/ SendGet(SingleTask) /\ UNCHANGED <<pvars, cvars, ivars>>
  \/ CreateFile(SingleTask) /\ UNCHANGED <<pvars, cvars, ivars>>
  \/ StreamNext(SingleTask) /\ UNCHANGED <<pvars, cvars, ivars>>
  \/ WriteAll(SingleTask) /\ UNCHANGED <<pvars, cvars, ivars>>
  \/ TrackerSend(SingleTask) /\ UNCHANGED <<pvars, cvars, ivars>>
  \/ SyncAll(SingleTask) /\ UNCHANGED <<pvars, cvars, ivars>>
  \/ Rename(SingleTask) /\ UNCHANGED <<pvars, cvars, ivars>>
  \/ Cancel(SingleTask) /\ UNCHANGED <<pvars, cvars, ivars>>

InitDownload == PIdle /\ DInit /\ CInit /\ IIdle

SpecDownload == InitDownload /\ [][DNext]_vars

InitInstall == DIdle /\ PIdle /\ CInit /\ IInit

\* check_packages, unpack_packages and relocate_packages, one after the other,
\* and relocate_packages a second time.
SpecInstall == InitInstall /\ [][NextInstall]_vars

\* A step of run() in which the environment raises no error: the transport
\* delivers and the file system obeys.
Delivered == fault' = fault

\* One call of run() on a transport that delivers every chunk, next to a
\* consumer that reads some events, or none, or stops.
NextProgress ==
  \/ Call(SingleTask) /\ calls[SingleTask] = 0 /\ UNCHANGED <<pvars, cvars, ivars>>
  \/ FastPath(SingleTask) /\ UNCHANGED <<pvars, cvars, ivars>>
  \/ SendGet(SingleTask) /\ Delivered /\ UNCHANGED <<pvars, cvars, ivars>>
  \/ CreateFile(SingleTask) /\ Delivered /\ UNCHANGED <<pvars, cvars, ivars>>
  \/ StreamNext(SingleTask) /\ Delivered /\ UNCHANGED <<pvars, cvars, ivars>>
  \/ WriteAll(SingleTask) /\ Delivered /\ UNCHANGED <<pvars, cvars, ivars>>
  \/ TrackerSend(SingleTask) /\ UNCHANGED <<pvars, cvars, ivars>>
  \/ SyncAll(SingleTask) /\ Delivered /\ UNCHANGED <<pvars, cvars, ivars>>
  \/ Rename(SingleTask) /\ Delivered /\ UNCHANGED <<pvars, cvars, ivars>>
  \/ recv(SingleTask) /\ UNCHANGED <<dvars, pvars, ivars>>
  \/ drop_events(SingleTask) /\ UNCHANGED <<dvars, pvars, ivars>>

\* The steps of run() on such a transport: the runtime goes on polling the
\* future, and every operation it awaits completes.
RunDelivered ==
  /\ Delivered
  /\ UNCHANGED <<pvars, cvars, ivars>>
  /\ \/ FastPath(SingleTask) \/ SendGet(SingleTask) \/ CreateFile(SingleTask)
     \/ StreamNext(SingleTask) \/ WriteAll(SingleTask)
     \/ TrackerSend(SingleTask) \/ SyncAll(SingleTask) \/ Rename(SingleTask)

\* The task is scheduled fairly; nothing is assumed of the consumer.
SpecProgress == InitDownload /\ [][NextProgress]_vars /\ WF_vars(RunDelivered)

\* fetch.rs:100-131  download_db and the consumer of test_download_db: drain
\* the events until the stream ends, then await the handle.
NextDownloadDb ==
  \/ download_db(SingleTask) /\ UNCHANGED <<pvars, cvars, ivars>>
  \/ (FastPath(SingleTask) \/ SendGet(SingleTask)) /\ UNCHANGED <<pvars, cvars, ivars>>
  \/ CreateFile(SingleTask) /\ UNCHANGED <<pvars, cvars, ivars>>
  \/ StreamNext(SingleTask) /\ UNCHANGED <<pvars, cvars, ivars>>
  \/ WriteAll(SingleTask) /\ UNCHANGED <<pvars, cvars, ivars>>
  \/ TrackerSend(SingleTask) /\ UNCHANGED <<pvars, cvars, ivars>>
  \/ SyncAll(SingleTask) /\ UNCHANGED <<pvars, cvars, ivars>>
  \/ Rename(SingleTask) /\ UNCHANGED <<pvars, cvars, ivars>>
  \/ recv(SingleTask) /\ UNCHANGED <<dvars, pvars, ivars>>
  \/ recv_none(SingleTask) /\ UNCHANGED <<dvars, pvars, ivars>>
  \/ handle_await(SingleTask) /\ UNCHANGED <<dvars, pvars, ivars>>

\* The spawned future: download_db spawns it, the runtime polls it, and every
\* operation it awaits completes, with a result or an error.
SpawnedRun ==
  /\ UNCHANGED <<pvars, cvars, ivars>>
  /\ \/ download_db(SingleTask)
     \/ FastPath(SingleTask) \/ SendGet(SingleTask) \/ CreateFile(SingleTask)
     \/ StreamNext(SingleTask) \/ WriteAll(SingleTask)
     \/ TrackerSend(SingleTask) \/ SyncAll(SingleTask) \/ Rename(SingleTask)

\* The consumer of test_download_db goes on as long as it can.
Drain ==
  /\ UNCHANGED <<dvars, pvars, ivars>>
  /\ recv(SingleTask) \/ recv_none(SingleTask) \/ handle_await(SingleTask)

SpecDownloadDb ==
  InitDownload /\ [][NextDownloadDb]_vars /\ WF_vars(SpawnedRun) /\ WF_vars(Drain)

\* Two DownloadTasks as DownloadTask::new makes them (tracker Some), forced
\* or not, each run once, their steps interleaved in any order: the runtime
\* polls whichever future is ready (fetch.rs:105, tokio::spawn).
NextConcurrent ==
  \/ \E t \in Tasks :
       Call(t) /\ calls[t] = 0 /\ tracker'[t] /\ UNCHANGED <<pvars, cvars, ivars>>
  \/ \E t \in Tasks : FastPath(t) /\ UNCHANGED <<pvars, cvars, ivars>>
  \/ \E t \in Tasks : SendGet(t) /\ UNCHANGED <<pvars, cvars, ivars>>
  \/ \E t \in Tasks : CreateFile(t) /\ UNCHANGED <<pvars, cvars, ivars>>
  \/ \E t \in Tasks : StreamNext(t) /\ UNCHANGED <<pvars, cvars, ivars>>
  \/ \E t \in Tasks : WriteAll(t) /\ UNCHANGED <<pvars, cvars, ivars>>
  \/ \E t \in Tasks : TrackerSend(t) /\ UNCHANGED <<pvars, cvars, ivars>>
  \/ \E t \in Tasks : SyncAll(t) /\ UNCHANGED <<pvars, cvars, ivars>>
  \/ \E t \in Tasks : Rename(t) /\ UNCHANGED <<pvars, cvars, ivars>>

SpecConcurrent == InitDownload /\ [][NextConcurrent]_vars

(***************************************************************************)
(*                     Claims about the download engine                    *)
(***************************************************************************)
\* The sibling temp path of a destination, as the claims name it.
Part(f) == f \o ".part"

Interrupted(t) ==
  \/ pc[t] = "cancelled"
  \/ pc[t] = "returned" /\ result[t].tag # "Ok"

C1_Absent ==
  \A t \in {SingleTask} :
    (calls[t] > 0 /\ before[t].content = Absent
       /\ (pc[t] \in Running \/ Interrupted(t)))
    => ~exists(filename[t])

C1_OnlyByRename ==
  \A t \in {SingleTask} :
    (~exists(filename[t]) /\ (exists(filename[t]))')
    => /\ pc[t] = "rename"
       /\ stream[t] = BodyLen
       /\ content(Part(filename[t])) = Body(t)
       /\ (content(filename[t]))' = Body(t)
       /\ (~exists(Part(filename[t])))'

\* C1: a run that found no destination keeps it absent while it streams and
\* after any interruption (chunk error, I/O error, cancellation or crash); the
\* destination appears only in the step taken after sync_all succeeded, by the
\* rename of a .part file that holds the whole body.
C1_DownloadAtomicity == [](C1_Absent) /\ [][C1_OnlyByRename]_dvars

\* C1 witness: the stream was interrupted after a chunk was written; the .part
\* file holds a partial body and the destination is absent.
C1_Witness ==
  /\ Interrupted(SingleTask)
  /\ before[SingleTask].content = Absent
  /\ fault[SingleTask] \in {"chunk", "cancel"}
  /\ exists(Part(filename[SingleTask]))
  /\ Len(content(Part(filename[SingleTask]))) \in 1..(BodyLen - 1)
  /\ ~exists(filename[SingleTask])

C10_TransportError ==
  \A t \in {SingleTask} :
    (pc[t] = "returned" /\ fault[t] \in {"get", "chunk"})
    => /\ result[t] = Err("DownloadFailed", fault[t])
       /\ dir[filename[t]] = before[t].ino
       /\ content(filename[t]) = before[t].content

\* C10 witness: a forced download over an existing file failed on a chunk
\* after part of the body was written to the .part file.
C10_Witness ==
  /\ pc[SingleTask] = "returned"
  /\ fault[SingleTask] = "chunk"
  /\ force[SingleTask]
  /\ before[SingleTask].content = OldBody
  /\ content(filename[SingleTask]) = OldBody
  /\ Len(content(Part(filename[SingleTask]))) >= 1

C14_SendReady == pc[SingleTask] = "send" => ENABLED TrackerSend(SingleTask)

C14_Completes ==
  (pc[SingleTask] = "create")
    ~> (/\ pc[SingleTask] = "returned"
        /\ result[SingleTask] = Ok(BodyLen, length[SingleTask])
        /\ content(filename[SingleTask]) = Body(SingleTask)
        /\ ~exists(Part(filename[SingleTask])))

\* C14: whatever the consumer of the events does (it reads late, reads
\* nothing, or stops), a run whose GET was answered and whose transport
\* delivers every chunk writes the whole body, renames the .part file to the
\* destination and returns Ok; the step that sends an event can always be
\* taken, it waits for no reader.
C14_NeverBlocks == [](C14_SendReady) /\ C14_Completes

\* C14 witness: the run returned with the whole body at the destination after
\* one event per byte was sent, and the consumer has read none of them.
C14_Witness ==
  /\ pc[SingleTask] = "returned"
  /\ content(filename[SingleTask]) = Body(SingleTask)
  /\ Len(events[SingleTask]) = BodyLen
  /\ seen[SingleTask] = 0

C16_Forced ==
  /\ pc[SingleTask] # "idle" => force[SingleTask]
  /\ pc[SingleTask] = "returned" => requests = 1

C16_FileThere ==
  (consumer[SingleTask] = "done" /\ fault[SingleTask] = "none")
  => /\ result[SingleTask].tag = "Ok"
     /\ content(filename[SingleTask]) = Body(SingleTask)

C16_Terminates == <>(consumer[SingleTask] = "done")

Downloaded(t) ==
  pc[t] = "returned" /\ result[t].tag = "Ok" /\ stream[t] = BodyLen

\* The bytes written so far to the file run() has open.
Written(t) == Len(data[file[t].ino])

C22_Sent ==
  \A t \in {SingleTask} :
    LET evs == events[t] IN
    tracker[t] =>
      /\ \A i \in 1..Len(evs) :
           /\ evs[i].max = length[t]
           /\ i > 1 => evs[i].current >= evs[i - 1].current
      /\ length[t] \in {0, BodyLen}
      /\ pc[t] \in {"next", "sync", "rename"} /\ evs # <<>> =>
           /\ evs[Len(evs)].current = Written(t)
           /\ Written(t) = partial_len[t]
      /\ Downloaded(t) =>
           /\ evs # <<>>
           /\ result[t].current = evs[Len(evs)].current
           /\ result[t].max = evs[Len(evs)].max
           /\ result[t].current = Len(content(filename[t]))

C22_OnePerChunk ==
  \A t \in {SingleTask} :
    tracker[t] =>
      /\ (pc[t] = "next" /\ pc'[t] = "write") => events'[t] = events[t]
      /\ (pc[t] = "write" /\ pc'[t] = "send") =>
           /\ events'[t] = events[t]
           /\ Len(data'[file[t].ino]) = Len(data[file[t].ino]) + Len(bytes[t])
      /\ (pc[t] = "send" /\ pc'[t] = "next") =>
           events'[t] = Append(events[t], DownloadState(Written(t), length[t]))
      /\ (events'[t] # events[t] /\ events'[t] # <<>>) => pc[t] = "send"

\* C22: the events of a task with a tracker follow the bytes written.  The
\* step that receives a chunk and the step that writes it send nothing; the
\* step after the write sends one event, whose current is the length of the
\* temp file; no other step sends.  Every event of a call has the same max,
\* the declared length or 0, and current never goes down.  A call that went
\* over the network and returned Ok returned the last event, and its current
\* is the length of the file at the destination.
C22_ProgressTracksBytes == [](C22_Sent) /\ [][C22_OnePerChunk]_dvars

\* C22 witness: a download in chunks of one byte, its length declared,
\* returned Ok after one event per chunk, the last one {BodyLen, BodyLen}.
C22_Witness ==
  /\ Downloaded(SingleTask)
  /\ tracker[SingleTask]
  /\ Len(events[SingleTask]) = BodyLen
  /\ events[SingleTask][1] = DownloadState(1, BodyLen)
  /\ events[SingleTask][BodyLen] = DownloadState(BodyLen, BodyLen)
  /\ result[SingleTask] = Ok(BodyLen, BodyLen)

\* What a destination may show: the file found there at the start, or the
\* whole body of a task that downloads to it.
Complete(d) == {OldBody} \cup {Body(t) : t \in {u \in Tasks : filename[u] = d}}

\* A task has the file at path p open for writing.
BeingWritten(p) == \E t \in Tasks : file[t] # NoHandle /\ file[t].ino = dir[p]

\* C23 (as claimed): with DownloadTask::run calls running concurrently, also
\* when they target the same destination, a file visible at a destination is
\* the whole body written by one task (or the file found there at the start)
\* and no task is still writing it.
C23_ConcurrentNoPartial ==
  \A d \in Dests :
    exists(d) => content(d) \in Complete(d) /\ ~BeingWritten(d)

(***************************************************************************)
(*                        Claims about the pipeline                        *)
(***************************************************************************)
\* The Registry: the entities that have a PackageInfo.
Registry == {id \in Ids : infos[id] # NoInfo}

\* A name the Formula Store can resolve.
InStore(n) == map[n] # NoEntity /\ formulas[map[n]] # NoFormula

\* The names reachable from the set S of names in at most k dependency edges,
\* going on only through names the store resolves.
RECURSIVE Reach(_, _)
Reach(S, k) ==
  IF k = 0 THEN S
  ELSE Reach(S \cup UNION {SeqToSet(formulas[map[n]].dependencies) :
                             n \in {m \in S : InStore(m)}}, k - 1)

Reachable == Reach(SeqToSet(opts), Cardinality(Names))

DepsDone == step # "ResolveDeps"

\* C3 (as claimed): once the Dependency Resolver has run, the Registry holds a
\* Package for exactly the formulas that are reachable from a requested name
\* and exist in the Formula Store.
C3_ResolutionComplete ==
  DepsDone => Registry = {map[n] : n \in {m \in Reachable : InStore(m)}}

\* C4 (as claimed): the Dependency Resolver finishes, and finishes with its
\* work queue empty.
C4_QueueEmptyAtEnd == DepsDone => names = <<>>

ErrorsFor(system, n) ==
  {i \in 1..Len(errors[system]) : errors[system][i].name = n}

\* C5 (as claimed): a requested name missing from the Formula Store gets one
\* Resolve error per occurrence and no Package, and every requested name that
\* the store resolves still gets its Package.
C5_SiblingsNotBlocked ==
  DepsDone =>
    /\ \A n \in SeqToSet(opts) :
         ~InStore(n) =>
           /\ Cardinality(ErrorsFor("ResolveDeps", n))
                = Cardinality({i \in 1..Len(opts) : opts[i] = n})
           /\ map[n] # NoEntity => infos[map[n]] = NoInfo
    /\ (\E m \in SeqToSet(opts) : ~InStore(m)) =>
         \A n \in SeqToSet(opts) : InStore(n) => map[n] \in Registry

\* The Bottle Resolver has been at entity id.
UrlVisited(id) ==
  /\ id \in Registry
  /\ \/ step = "ResolveUrl.loop" /\ id \notin todo
     \/ step \in {"ResolveSize", "ResolveSize.loop", "done"}

UrlPassDone == step \in {"ResolveSize", "ResolveSize.loop", "done"}

UrlFailed(id) == ErrorsFor("ResolveUrlSystem", infos[id].name) # {}

\* C6 (as claimed): a Package with an error of the Bottle Resolver is left
\* alone by the Size Resolver (no HEAD request, no field written, no further
\* error), stays in the Registry and keeps its error.
C6_FailedPackageSkipped ==
  \A id \in Registry :
    (UrlPassDone /\ UrlFailed(id)) =>
      /\ \A h \in heads : h.id # id
      /\ infos[id].package_name = <<>>
      /\ infos[id].size = 0 /\ infos[id].download_size = 0
      /\ ErrorsFor("ResolveSize", infos[id].name) = {}

\* C7 (as claimed): after the Bottle Resolver's pass a Package is at Stage
\* ResolveUrl exactly when its resolution succeeded, and at Resolve otherwise.
C7_StageFollowsSuccess ==
  \A id \in Registry :
    UrlPassDone =>
      stages[id] = (IF UrlFailed(id) THEN "Resolve" ELSE "ResolveUrl")

\* The architectures the claim has the resolver try, in its order.
C8_Order == <<config.target, "all">> \o config.os_fallback

\* arch is the first entry of C8_Order that the bottle set has a file for.
C8_FirstPresent(arch, files) ==
  \E i \in 1..Len(C8_Order) :
    /\ C8_Order[i] = arch
    /\ arch \in DOMAIN files
    /\ \A j \in 1..(i - 1) : C8_Order[j] \notin DOMAIN files

C8_NoneTried(files) == \A i \in 1..Len(C8_Order) : C8_Order[i] \notin DOMAIN files

C8_Selection(id) ==
  LET files == formulas[id].bottle.files IN
  IF C8_NoneTried(files)
  THEN infos[id].arch = ""
  ELSE C8_FirstPresent(infos[id].arch, files)

RECURSIVE Str(_)
Str(s) == IF s = <<>> THEN "" ELSE Head(s) \o Str(Tail(s))

\* The url the claim gives a resolved Package.
C9_Url(id) ==
  LET info == infos[id]
      name == info.name
      slashed == [i \in DOMAIN name |-> IF name[i] = "@" THEN "/" ELSE name[i]]
      first == config.mirror_list[1]
      rebuild == IF info.rebuild = 0 THEN <<>>
                 ELSE <<".">> \o Decimal(info.rebuild)
  IN
  IF Len(config.mirror_list) = 0
  THEN formulas[id].bottle.files[info.arch].url
  ELSE IF first.oci
  THEN <<first.url, "/">> \o slashed \o <<"/blobs/sha256:">> \o <<info.sha256>>
  ELSE <<first.url, "/">> \o name \o <<"-">> \o info.version_full \o <<".">>
         \o <<info.arch>> \o <<".bottle">> \o rebuild \o <<".tar.gz">>

UrlResolved(id) == UrlVisited(id) /\ ~UrlFailed(id)

\* C9: the url of a Package that the Bottle Resolver resolved is built on the
\* first mirror alone when there is one: {mirror}/{name, @ as /}/blobs/sha256:
\* {sha256} for an OCI mirror (https://m/x, foo, abcd gives
\* https://m/x/foo/blobs/sha256:abcd), {mirror}/{name}-{version}.{arch}.bottle
\* [.{rebuild}].tar.gz otherwise, the rebuild part there exactly when rebuild
\* is not 0 (rebuild 2 ends in .bottle.2.tar.gz); with no mirror it is the
\* url of the selected bottle file of the Formula.
C9_UrlConstruction ==
  \A id \in Registry :
    UrlResolved(id) =>
      LET url == infos[id].url
          n == Len(infos[id].url)
          mirrors == config.mirror_list
      IN
      /\ url = C9_Url(id)
      /\ (mirrors # <<>> /\ mirrors[1].oci) => "@" \notin SeqToSet(url)
      /\ (mirrors # <<>> /\ mirrors[1].oci /\ infos[id].name = foo) =>
           Str(url) = "https://m/x/foo/blobs/sha256:abcd"
      /\ (mirrors # <<>> /\ ~mirrors[1].oci /\ infos[id].rebuild = 2) =>
           SubSeq(url, n - 3, n) = <<".bottle", ".", "2", ".tar.gz">>
      /\ (mirrors # <<>> /\ ~mirrors[1].oci /\ infos[id].rebuild = 0) =>
           SubSeq(url, n - 2, n) = <<infos[id].arch, ".bottle", ".tar.gz">>

\* C9 witness: baz@2 resolved against an OCI mirror that is first of two.
C9_Witness ==
  \E id \in Registry :
    /\ UrlResolved(id)
    /\ Len(config.mirror_list) = 2
    /\ infos[id].name = baz
    /\ Str(infos[id].url) = "https://m/x/baz/2/blobs/sha256:cafe"

(***************************************************************************)
(*                 Claims about the passes of the systems                  *)
(***************************************************************************)
\* The Bottle Resolver has worked on entity id: it wrote the architecture or
\* recorded an error for it.
UrlProcessed(id) ==
  infos[id] # NoInfo /\ (infos[id].arch # "" \/ UrlFailed(id))

\* The Size Resolver has worked on entity id: the cache file name is the
\* first thing it writes.
SizeProcessed(id) == infos[id] # NoInfo /\ infos[id].package_name # <<>>

UrlFields(info) ==
  IF info = NoInfo THEN <<>>
  ELSE <<info.arch, info.rebuild, info.relocate, info.sha256, info.url>>

C11_Order ==
  /\ (\E id \in Ids : UrlProcessed(id)) => DepsDone
  /\ (\E id \in Ids : SizeProcessed(id)) =>
       /\ UrlPassDone
       /\ \A j \in Join3 : UrlProcessed(j)

C11_Frozen ==
  /\ (\E id \in Ids : UrlProcessed(id) \/ SizeProcessed(id)) =>
       /\ names' = names
       /\ stages' = stages
       /\ errors'.ResolveDeps = errors.ResolveDeps
       /\ {id \in Ids : infos'[id] # NoInfo} = Registry
  /\ (\E id \in Ids : SizeProcessed(id)) =>
       /\ errors'.ResolveUrlSystem = errors.ResolveUrlSystem
       /\ \A id \in Ids : UrlFields(infos'[id]) = UrlFields(infos[id])

\* C11: the stages run one after the other over the whole Registry.  Once the
\* Bottle Resolver has worked on any Package the Dependency Resolver has
\* returned and never again changes the queue, the Registry, a Stage or its
\* errors; once the Size Resolver has worked on any Package the Bottle
\* Resolver has been at every Package of its pass and never again writes a
\* field or an error.
C11_StagesSequential == [](C11_Order) /\ [][C11_Frozen]_pvars

\* C11 witness: the run is over with two Packages or more, each one worked on
\* by the Bottle Resolver and then by the Size Resolver.
C11_Witness ==
  /\ step = "done"
  /\ Cardinality(Registry) >= 2
  /\ \A id \in Registry : UrlProcessed(id) /\ SizeProcessed(id)

\* What makes the Bottle Resolver fail for entity id: no stable bottle set,
\* no file for any architecture tried, or a cellar that is no RelocateMode.
UrlShouldFail(id) ==
  LET bottles == formulas[id].bottle IN
  \/ ~bottles.present
  \/ C8_NoneTried(bottles.files)
  \/ bottles.files[infos[id].arch].cellar \notin {":any", ":any_skip_relocation"}

ProbeFailed(id) == ErrorsFor("ResolveSize", infos[id].name) # {}

Probed(id) == \E h \in heads : h.id = id

\* C12: errors are per Package and accumulate.  After the Bottle Resolver's
\* pass every Package of the pass was worked on, a Package has one error of
\* the pass when its resolution failed and none otherwise, and the error list
\* holds nothing else.  After the Size Resolver's pass every Package was
\* worked on, each one not in the cache was probed, a failed probe left one
\* error for its Package and the size at zero, and the list holds nothing else.
C12_ErrorsAccumulate ==
  /\ UrlPassDone =>
       /\ \A id \in Registry :
            /\ UrlProcessed(id)
            /\ Cardinality(ErrorsFor("ResolveUrlSystem", infos[id].name))
                 = (IF UrlShouldFail(id) THEN 1 ELSE 0)
            /\ ~UrlShouldFail(id) => infos[id].url # <<>>
       /\ Len(errors.ResolveUrlSystem)
            = Cardinality({id \in Registry : UrlShouldFail(id)})
  /\ step = "done" =>
       /\ \A id \in Registry :
            /\ SizeProcessed(id)
            /\ infos[id].package_name \notin cache_files => Probed(id)
            /\ Cardinality(ErrorsFor("ResolveSize", infos[id].name)) <= 1
            /\ ProbeFailed(id) =>
                 /\ Probed(id)
                 /\ infos[id].size = 0 /\ infos[id].download_size = 0
       /\ Len(errors.ResolveSize)
            = Cardinality({id \in Registry : ProbeFailed(id)})

\* C12 witness: the run is over; in the Bottle Resolver's pass two Packages
\* failed and a third was resolved, and in the Size Resolver's pass the probe
\* of two Packages failed and the probe of a third gave its size.
C12_Witness ==
  /\ step = "done"
  /\ Cardinality({id \in Registry : UrlFailed(id)}) = 2
  /\ \E id \in Registry : ~UrlFailed(id) /\ infos[id].url # <<>>
  /\ Cardinality({id \in Registry : ProbeFailed(id)}) = 2
  /\ \E id \in Registry : ~ProbeFailed(id) /\ infos[id].size = ArchiveSize

NoErrors == \A system \in DOMAIN errors : errors[system] = <<>>

\* C13 (as claimed): the run for the request ["foo"], foo depending on
\* ["bar"], both with a bottle for the target and no error at any stage, ends
\* with exactly the Packages foo and bar in the Registry, each at the terminal
\* Stage and each with a non-empty link list.
C13_EndToEnd ==
  (/\ step = "done"
   /\ opts = <<foo>>
   /\ formulas[map[foo]].dependencies = <<bar>>
   /\ formulas[map[bar]].dependencies = <<>>
   /\ \A n \in {foo, bar} :
        /\ formulas[map[n]].bottle.present
        /\ ~C8_NoneTried(formulas[map[n]].bottle.files)
   /\ NoErrors)
  => /\ Registry = {map[foo], map[bar]}
     /\ \A id \in Registry :
          /\ stages[id] = "Done"
          /\ "links" \in DOMAIN infos[id]
          /\ infos[id].links # <<>>

\* The cache file of a Package, as the claim names it:
\* <name>-<version>.<arch>.bottle.tar.gz
C18_CacheFile(info) ==
  Str(info.name) \o "-" \o Str(info.version_full) \o "." \o info.arch
    \o ".bottle.tar.gz"

C18_InCache(info) == C18_CacheFile(info) \in {Str(f) : f \in cache_files}

\* C18: in the Size Resolver's pass, the turn for a Package whose cache file
\* exists sends no HEAD request, leaves size and download size as they are,
\* records no error and lowers the progress total by one; the turn for any
\* other Package sends a HEAD request to its url and leaves the total alone.
C18_CacheSkip ==
  [][\A id \in Ids :
       (step = "ResolveSize.loop" /\ id \in todo /\ id \notin todo')
       => IF C18_InCache(infos[id])
          THEN /\ heads' = heads
               /\ infos'[id].size = infos[id].size
               /\ infos'[id].download_size = infos[id].download_size
               /\ errors' = errors
               /\ pb'.length = pb.length - 1
               /\ pb'.position = pb.position
          ELSE /\ [id |-> id, url |-> infos[id].url] \in heads'
               /\ [id |-> id, url |-> infos[id].url] \notin heads
               /\ pb'.length = pb.length]_pvars

\* C18 witness: the pass is over for three Packages; the one in the cache was
\* not probed and has no size, another was probed and has its size, and the
\* progress total is one short of the number of Packages.
C18_Witness ==
  /\ step = "done"
  /\ Cardinality(Registry) = 3
  /\ pb.length = 2
  /\ \E id \in Registry :
       /\ C18_InCache(infos[id])
       /\ ~Probed(id)
       /\ infos[id].size = 0
  /\ \E id \in Registry :
       /\ ~C18_InCache(infos[id])
       /\ Probed(id)
       /\ infos[id].size = ArchiveSize

C20_Unique ==
  \A a, b \in Registry :
    (infos[a].full_name = infos[b].full_name \/ infos[a].name = infos[b].name)
    => a = b

C20_Skip ==
  (/\ step = "ResolveDeps"
   /\ names # <<>>
   /\ map[Head(names)] \in Registry)
  => /\ infos' = infos
     /\ stages' = stages
     /\ errors' = errors
     /\ names' = Tail(names)

\* C20: the Registry never holds two Packages of one formula; and a turn of
\* the Dependency Resolver for a name that has a Package already takes the
\* name off the queue and changes nothing else: no Package, no Stage, no
\* error, and the dependencies are not put on the queue again.
C20_Deduplication == [](C20_Unique) /\ [][C20_Skip]_pvars

\* C20 witness: foo was asked for, foo and bar depend on each other, and the
\* queue has run empty: the name foo came off the queue a second time and was
\* skipped.
C20_Witness ==
  /\ opts = <<foo>>
  /\ formulas[map[foo]].dependencies = <<bar>>
  /\ formulas[map[bar]].dependencies = <<foo>>
  /\ names = <<>>
  /\ Registry = {map[foo], map[bar]}
  /\ errors.ResolveDeps = <<>>

\* add.rs:51-54  the place of a Stage in the enum; an entity without a Stage
\* component stands before the first.
StageRank(stage) ==
  IF stage = "Resolve" THEN 1 ELSE IF stage = "ResolveUrl" THEN 2 ELSE 0

C21_Staged == \A id \in Registry : StageRank(stages[id]) >= 1

C21_Kept ==
  \A id \in Registry :
    /\ infos'[id] # NoInfo
    /\ infos'[id].name = infos[id].name
    /\ StageRank(stages'[id]) >= StageRank(stages[id])

\* C21: the Registry is monotone.  A Package is inserted by the Dependency
\* Resolver with the first Stage, and no step of any system removes a Package
\* of the Registry, makes it the Package of another formula, takes its Stage
\* away or sets its Stage to an earlier value of the enum.
C21_RegistryMonotone == [](C21_Staged) /\ [][C21_Kept]_pvars

\* C21 witness: the run is over with three Packages in the Registry, one of
\* them with an error of the Bottle Resolver and one with an error of the
\* Size Resolver, each still with its Stage.
C21_Witness ==
  /\ step = "done"
  /\ Cardinality(Registry) = 3
  /\ \E id \in Registry : UrlFailed(id)
  /\ \E id \in Registry : ProbeFailed(id)
  /\ \A id \in Registry : stages[id] # NoStage

\* The entity the running turn of the Bottle Resolver's loop is at.
C24_At == CHOOSE id \in todo : id \notin todo'

C24_Turn ==
  (step = "ResolveUrl.loop" /\ todo' # todo) =>
    LET was == infos[C24_At]
        now == infos'[C24_At]
        errs == errors.ResolveUrlSystem
        errs1 == errors'.ResolveUrlSystem
    IN
    \/ /\ errs1 = errs
       /\ now.url # <<>> /\ now.url # was.url
       /\ now.sha256 = formulas[C24_At].bottle.files[now.arch].sha256
       /\ now.sha256 # was.sha256
    \/ /\ Len(errs1) = Len(errs) + 1
       /\ SubSeq(errs1, 1, Len(errs)) = errs
       /\ errs1[Len(errs1)].name = was.name
       /\ now.url = was.url
       /\ now.sha256 = was.sha256

C24_Outcome ==
  \A id \in Registry :
    UrlVisited(id) =>
      \/ /\ ~UrlFailed(id)
         /\ infos[id].url # <<>> /\ infos[id].sha256 # ""
      \/ /\ Cardinality(ErrorsFor("ResolveUrlSystem", infos[id].name)) = 1
         /\ infos[id].url = <<>> /\ infos[id].sha256 = ""

\* C24: the outcome of the Bottle Resolver for a Package is one of two.  A
\* turn of its loop either writes the url and the sha256 of the bottle and
\* records no error, or records one error, of that Package, and leaves url
\* and sha256 as they were; and every Package the pass has visited has
\* either the two fields and no error of the pass, or one error of the pass
\* and the two fields as the Dependency Resolver left them.
C24_AllOrError == [](C24_Outcome) /\ [][C24_Turn]_pvars

\* C24 witness: the pass is over; one Package failed after its architecture
\* was written (its cellar is no RelocateMode) and has neither url nor
\* sha256, another has both and no error.
C24_Witness ==
  /\ UrlPassDone
  /\ \E id \in Registry :
       /\ UrlFailed(id)
       /\ infos[id].arch # ""
       /\ infos[id].url = <<>> /\ infos[id].sha256 = ""
  /\ \E id \in Registry :
       ~UrlFailed(id) /\ infos[id].url # <<>> /\ infos[id].sha256 # ""

(***************************************************************************)
(*                    Claims about the stage functions                     *)
(***************************************************************************)
Ended == iresult # IOk

Extracted(p) == {f \in SeqToSet(Entries(p)) : cellar[f] # NoContent}

\* C15 (as claimed): when the check of a Package's archive finds a hash other
\* than the expected sha256, the Package gets ChecksumMismatch, which is not
\* the error of a failed download, and no member of the archive is extracted.
C15_ChecksumMismatch ==
  \A p \in Pkgs :
    (/\ archive[p] = "corrupt"
     /\ istage = "check_packages"
     /\ Ended
     /\ iresult.name = p)
    => /\ iresult.kind = "ChecksumMismatch"
       /\ iresult.kind # "Download"
       /\ Extracted(p) = {}

HasPlaceholder(body) == Placeholder \in SeqToSet(body)

\* The members of p of one kind that are shipped with a placeholder, in the
\* order of the member list.
ToPatch(p, kind) ==
  SelectSeq(Entries(p),
            LAMBDA f : Shipped(f).kind = kind /\ HasPlaceholder(Shipped(f).body))

\* Package q has been relocated and its lists are recorded.
Relocated(q) ==
  /\ meta[q] # NoMeta
  /\ \A f \in SeqToSet(Entries(q)) :
       cellar[f] # NoContent /\ ~HasPlaceholder(cellar[f].body)
  /\ meta[q].patched_binaries = ToPatch(q, "obj")
  /\ meta[q].patched_text = ToPatch(q, "text")

\* C17 (as claimed): when relocating a file of package P fails with an I/O
\* error, the error is RelocationFailed{P, file}, and the pass goes on: when
\* it is over every other package that is to be relocated has been relocated
\* and has its patched-binary and patched-text lists recorded.
C17_RelocationLocal ==
  (/\ istage = "relocate_packages"
   /\ ipass = 1
   /\ Ended
   /\ iresult.file \in SeqToSet(Entries(PkgOrder[icur])))
  => /\ iresult.kind = "PackageRelocation"
     /\ iresult.name = PkgOrder[icur]
     /\ \A q \in Pkgs \ {PkgOrder[icur]} :
          pinfos[q].relocate # "Skip" => Relocated(q)

\* The calls of relocate_packages that have gone over all files of p and
\* have recorded p's lists: the earlier calls, and the running one when it is
\* past p or has stopped at the save of p's metadata (add.rs:343-346, the
\* lists are assigned before the save).
PassesOver(p) ==
  LET at == CHOOSE i \in 1..Len(PkgOrder) : PkgOrder[i] = p IN
  IF istage = "relocate_packages"
  THEN (ipass - 1)
       + (IF at < icur \/ (at = icur /\ iresult.kind = "PackageInfo")
          THEN 1 ELSE 0)
  ELSE IF istage = "relocated" THEN ipass ELSE 0

C19_Text(p) ==
  {f \in SeqToSet(Entries(p)) :
     Shipped(f).kind = "text" /\ HasPlaceholder(Shipped(f).body)}

C19_Relocated ==
  \A p \in Pkgs : \A f \in C19_Text(p) :
    pinfos[p].relocate # "Skip" =>
      /\ PassesOver(p) >= 1 =>
           /\ Len(cellar[f].body) = Len(Shipped(f).body)
           /\ \A i \in 1..Len(Shipped(f).body) :
                cellar[f].body[i] = (IF Shipped(f).body[i] = Placeholder
                                     THEN ConcretePath ELSE Shipped(f).body[i])
      /\ PassesOver(p) = 1 => f \in SeqToSet(meta[p].patched_text)
      /\ PassesOver(p) >= 2 => f \notin SeqToSet(meta[p].patched_text)

C19_SecondPassWritesNothing ==
  (istage = "relocate_packages" /\ ipass >= 2) => cellar' = cellar

=============================================================================
